---- MODULE Spec2Model ----
(***************************************************************************)
(* PlantPulse server (server/index.js): the Reading Store kept in          *)
(* sensor_history.json, the /api/sensors poller with its 5 second cache,   *)
(* the /api/sensors/:sensorId/history resolver and its min/max bucket      *)
(* downsampling, and the Settings Store kept in plant_settings.json; and   *)
(* the client's useEcowittData hook, which polls /api/sensors.             *)
(*                                                                         *)
(* Time is counted in seconds.  A timestamp is the integer instant that    *)
(* its ISO string denotes; NoTime is a missing or unparsable instant.      *)
(* Sizes are scaled: MaxReadings stands for the 50,000 of storeReading     *)
(* and maxPoints gives each period's budget divided by 100.                *)
(***************************************************************************)
EXTENDS Integers, Sequences, FiniteSets, TLC

\* ---------------------------------------------------------------- bounds

\* The retention cap of storeReading (50,000 in the code), scaled.
MaxReadings == 3

\* The longest upstream history list the downsampling is driven with.
MaxLen == 7

\* How many times the clock is advanced in a run of the poller.
MaxTicks == 2

\* The length of the stored series the 24h view is queried on: getHistory
\* keeps every fifth reading, so six readings give two points.
QueryLen == 6

\* How many times the 10-second timer of the client fires in a run.
MaxPolls == 3

\* ----------------------------------------------------------------- state

VARIABLES
  file,       \* sensor_history.json: sensor id -> sequence of readings
  appended,   \* history: per sensor, every reading handed to storeReading
  ioFailed,   \* history: a read or a write of the history file has failed
  dsList,     \* downsampling: the entries of the upstream list, as received
  dsPeriod,   \* downsampling: the period of the request
  dsOut,      \* downsampling: the reduced readings
  dsDone,     \* downsampling: the readings have been reduced
  useMock,    \* USE_MOCK_DATA
  accounts,   \* the ids of the configured accounts
  now,        \* the wall clock, in seconds
  sensorCache,      \* <<>> for null, or <<response>>
  sensorCacheTime,  \* Date.now() when the cache was written, in milliseconds
  pc,         \* per /api/sensors request: "idle", "awaiting" or "done"
  results,    \* per request and account: the promise of fetchEcowittData
  resp,       \* per request: <<>> or <<the response sent by res.json>>
  obs,        \* history, per request: what it saw and did
  hPc,        \* the history request: "idle", "awaiting" or "done"
  hReq,       \* the history request: its sensor id and period
  hResp,      \* <<>> or <<the response sent by res.json>>
  hObs,       \* history: the upstream calls made, the reply, the file read
  settingsFile,  \* plant_settings.json: missing, corrupt, or a record
  sOp,        \* history: the last settings request, its outcome and response
  sCall,      \* history: the last storeReading call made on its own
  refreshingRef,  \* useEcowittData: refreshingRef.current
  hasLoadedRef,   \* useEcowittData: hasLoadedRef.current
  uiSensors,      \* useEcowittData: the sensors state
  uiLoading,      \* useEcowittData: the loading state
  uiError,        \* useEcowittData: the error state, <<>> for null
  uiLastUpdated,  \* useEcowittData: the lastUpdated state, <<>> for null
  inFlight,       \* the calls of fetchSensors that have not settled
  effectRuns,     \* how many times the effects of the hook have run
  polls,          \* how many times the 10-second timer has fired
  cEvent          \* history: the last step of the hook and its outcome

storeVars == <<file, appended, ioFailed>>
fileVars == <<file, appended, ioFailed, sCall>>
dsVars == <<dsList, dsPeriod, dsOut, dsDone>>
pollerVars == <<useMock, accounts, now, sensorCache, sensorCacheTime, pc, results, resp, obs>>
configVars == <<useMock, accounts>>
cacheVars == <<sensorCache, sensorCacheTime>>
reqVars == <<pc, results, resp, obs>>
histVars == <<hPc, hReq, hResp, hObs>>
setVars == <<settingsFile, sOp>>
uiVars == <<uiSensors, uiLoading, uiError, uiLastUpdated>>
clientVars == <<refreshingRef, hasLoadedRef, uiSensors, uiLoading, uiError,
                uiLastUpdated, inFlight, effectRuns, polls, cEvent>>

vars == <<file, appended, ioFailed, dsList, dsPeriod, dsOut, dsDone,
          useMock, accounts, now, sensorCache, sensorCacheTime,
          pc, results, resp, obs, hPc, hReq, hResp, hObs, settingsFile, sOp, sCall,
          refreshingRef, hasLoadedRef, uiSensors, uiLoading, uiError,
          uiLastUpdated, inFlight, effectRuns, polls, cEvent>>

\* The sensor ids the accounts can report (`${account.id}_soil_ch${n}`).
SensorIds == {"account1_soil_ch1", "account1_soil_ch2", "account2_soil_ch1"}

Reading(m, t) == [moisture |-> m, timestamp |-> t]

\* The empty history object {} : no sensor has a series.
EmptyHistory == [s \in SensorIds |-> <<>>]

\* ------------------------------------------------------- the Reading Store

\* Array.prototype.slice(-n): the last n elements, all of them if fewer.
SliceLast(seq, n) ==
  IF Len(seq) <= n THEN seq ELSE SubSeq(seq, Len(seq) - n + 1, Len(seq))

\* A mutant of loadHistory: a failed read is not noticed.
loadHistoryAnyway(f, readOk) == f

\* loadHistory: the parsed file, or {} when it cannot be read or parsed.
loadHistory(f, readOk) == IF readOk THEN f ELSE EmptyHistory

\* saveHistory: the file rewritten whole, or left as it was when the write fails.
saveHistory(f, history, writeOk) == IF writeOk THEN history ELSE f

\* A mutant of Truncate: keeps the oldest readings instead of the newest.
TruncateKeepOldest(series) ==
  IF Len(series) > MaxReadings THEN SubSeq(series, 1, MaxReadings) ELSE series

\* The retention step of storeReading.
Truncate(series) ==
  IF Len(series) > MaxReadings THEN SliceLast(series, MaxReadings) ELSE series

\* storeReading(sensorId, moisture, timestamp) on the file f; readOk and writeOk
\* are the outcomes of the file read and of the file write.
storeReading(f, sensorId, moisture, timestamp, readOk, writeOk) ==
  LET history == loadHistory(f, readOk)
      pushed  == Append(history[sensorId], Reading(moisture, timestamp))
  IN  saveHistory(f, [history EXCEPT ![sensorId] = Truncate(pushed)], writeOk)

\* A call of storeReading: its arguments and the outcomes of its file I/O.
StoreCall(sensorId, reading, readOk, writeOk) ==
  [sensorId |-> sensorId, reading |-> reading, readOk |-> readOk, writeOk |-> writeOk]
NoStoreCall == StoreCall("", Reading(0, 0), TRUE, TRUE)

\* -------------------------------------------------- the downsampling engine

Periods == {"1h", "24h", "7d", "30d", "1y"}

\* The periods that reach the upstream history call (1h returns before it).
UpstreamPeriods == Periods \ {"1h"}

\* maxPoints of the history handler: 100, 300, 400, 300 and 200 in the code,
\* here in hundreds.
maxPoints(period) ==
  CASE period = "1h"  -> 1
    [] period = "24h" -> 3
    [] period = "7d"  -> 4
    [] period = "30d" -> 3
    [] OTHER          -> 2

\* Math.ceil(a / b) for a >= 0, b > 0.
Ceil(a, b) == (a + b - 1) \div b

Min2(a, b) == IF a < b THEN a ELSE b

Point(t, v) == [time |-> t, value |-> v]

\* Array.prototype.sort((a, b) => a.time - b.time): a stable sort by time.
RECURSIVE InsertByTime(_, _)
InsertByTime(sorted, x) ==
  IF sorted = <<>> THEN <<x>>
  ELSE IF sorted[Len(sorted)].time <= x.time THEN Append(sorted, x)
  ELSE Append(InsertByTime(SubSeq(sorted, 1, Len(sorted) - 1), x), sorted[Len(sorted)])

RECURSIVE SortFrom(_, _, _)
SortFrom(seq, k, acc) ==
  IF k > Len(seq) THEN acc ELSE SortFrom(seq, k + 1, InsertByTime(acc, seq[k]))

\* A mutant of sortByTime: the entries are left in the order received.
sortByTimeNot(seq) == seq

sortByTime(seq) == SortFrom(seq, 1, <<>>)

\* The scan of one bucket: minPoint is the first reading of the least value,
\* maxPoint the first reading of the greatest value.
RECURSIVE minPointFrom(_, _, _)
minPointFrom(bucket, k, cur) ==
  IF k > Len(bucket) THEN cur
  ELSE minPointFrom(bucket, k + 1, IF bucket[k].value < cur.value THEN bucket[k] ELSE cur)

RECURSIVE maxPointFrom(_, _, _)
maxPointFrom(bucket, k, cur) ==
  IF k > Len(bucket) THEN cur
  ELSE maxPointFrom(bucket, k + 1, IF bucket[k].value > cur.value THEN bucket[k] ELSE cur)

\* A mutant of emitBucket: the second point is pushed only for a difference
\* greater than 2.
emitBucketStrict(bucket) ==
  LET minPoint == minPointFrom(bucket, 1, bucket[1])
      maxPoint == maxPointFrom(bucket, 1, bucket[1])
      both     == maxPoint.value - minPoint.value > 2
  IN  IF minPoint.time < maxPoint.time
      THEN <<minPoint>> \o (IF both THEN <<maxPoint>> ELSE <<>>)
      ELSE <<maxPoint>> \o (IF both THEN <<minPoint>> ELSE <<>>)

\* A mutant of emitBucket: the second point is pushed for any difference.
emitBucketLoose(bucket) ==
  LET minPoint == minPointFrom(bucket, 1, bucket[1])
      maxPoint == maxPointFrom(bucket, 1, bucket[1])
      both     == maxPoint.value - minPoint.value >= 1
  IN  IF minPoint.time < maxPoint.time
      THEN <<minPoint>> \o (IF both THEN <<maxPoint>> ELSE <<>>)
      ELSE <<maxPoint>> \o (IF both THEN <<minPoint>> ELSE <<>>)

\* A mutant of emitBucket: both points are pushed whatever their difference.
emitBucketBoth(bucket) ==
  LET minPoint == minPointFrom(bucket, 1, bucket[1])
      maxPoint == maxPointFrom(bucket, 1, bucket[1])
  IN  IF minPoint.time < maxPoint.time
      THEN <<minPoint, maxPoint>>
      ELSE <<maxPoint, minPoint>>

\* What one non-empty bucket pushes onto reduced.
emitBucket(bucket) ==
  LET minPoint == minPointFrom(bucket, 1, bucket[1])
      maxPoint == maxPointFrom(bucket, 1, bucket[1])
      both     == maxPoint.value - minPoint.value >= 2
  IN  IF minPoint.time < maxPoint.time
      THEN <<minPoint>> \o (IF both THEN <<maxPoint>> ELSE <<>>)
      ELSE <<maxPoint>> \o (IF both THEN <<minPoint>> ELSE <<>>)

\* The bucket loop: for (i = 0; i < readings.length; i += bucketSize).
RECURSIVE bucketLoop(_, _, _)
bucketLoop(readings, i, bucketSize) ==
  IF i >= Len(readings) THEN <<>>
  ELSE emitBucket(SubSeq(readings, i + 1, Min2(i + bucketSize, Len(readings))))
         \o bucketLoop(readings, i + bucketSize, bucketSize)

\* A mutant of downsample: the budget is taken one too small.
downsampleOffByOne(readings, budget) ==
  IF Len(readings) < budget THEN readings
  ELSE sortByTime(bucketLoop(readings, 0, Ceil(Len(readings), budget - 1)))

\* The downsampling of the history handler on time-sorted readings.
downsample(readings, budget) ==
  IF Len(readings) <= budget THEN readings
  ELSE sortByTime(bucketLoop(readings, 0, Ceil(Len(readings), budget)))

\* The upstream list parsed and sorted by time ascending.
parseList(entries) == sortByTime(entries)

\* Moisture values of a list: differences of 0, 1 and 2 all occur.
ListValues == {50, 51, 52}

\* The lists of up to MaxLen entries, one every five minutes, by ascending key.
AscLists ==
  UNION { { [i \in 1..k |-> Point(300 * i, v[i])] : v \in [1..k -> ListValues] }
          : k \in 0..MaxLen }

Reverse(seq) == [i \in 1..Len(seq) |-> seq[Len(seq) + 1 - i]]

\* ------------------------------------------------- the /api/sensors poller

\* The accounts array before its filter, in order, and each account's channels.
AccountIds == <<"account1", "account2">>
AccountSet == {"account1", "account2"}
Channels(a) == IF a = "account1" THEN <<1, 2>> ELSE <<1>>
SensorId(a, ch) ==
  IF a = "account1" THEN (IF ch = 1 THEN "account1_soil_ch1" ELSE "account1_soil_ch2")
  ELSE "account2_soil_ch1"

\* The clock when the server starts, in seconds.
StartTime == 100

\* parseInt of a missing or malformed soilmoisture.time: NaN.
NoTime == -1

\* SENSOR_CACHE_TTL, in milliseconds.
SENSOR_CACHE_TTL == 5000

\* Date.now(): the clock in milliseconds.
DateNow(t) == t * 1000

\* The device data an account's real_time call can return with code 0: per
\* soil channel present, its soilmoisture value and reporting instant.
Entry(ch, v, t) == [ch |-> ch, value |-> v, time |-> t]
Payloads(a) ==
  IF a = "account1"
  THEN { <<>>, <<Entry(1, 43, 70), Entry(2, 41, 40)>>,
         <<Entry(1, 40, NoTime), Entry(2, 41, 40)>> }
  ELSE { <<>>, <<Entry(1, 55, 70)>> }

\* What the network does with one real_time call: the fetch or the JSON parse
\* throws, the API answers a non-zero code, or it answers code 0 with data.
Replies(a) ==
  { IF a = "account1" THEN [kind |-> "throw", data |-> <<>>]
                      ELSE [kind |-> "code", data |-> <<>>] }
    \cup { [kind |-> "ok", data |-> d] : d \in Payloads(a) }

Sensor(id, a, m, t) == [id |-> id, accountId |-> a, moisture |-> m, timestamp |-> t]

\* The promise of one fetchEcowittData call.
NoCall == [status |-> "none", error |-> "", sensors |-> <<>>]
Pending == [status |-> "pending", error |-> "", sensors |-> <<>>]
Settled(err, sensors) == [status |-> "settled", error |-> err, sensors |-> sensors]

\* A mutant of fetchEcowittData: an account whose call throws is answered
\* with a synthetic sensor stamped at the start of the run.
fetchEcowittDataSynthetic(a, reply) ==
  IF reply.kind = "throw"
  THEN Settled("", <<Sensor(SensorId(a, 1), a, 45, StartTime)>>)
  ELSE IF reply.kind = "code" THEN Settled("API error", <<>>)
  ELSE IF \E i \in 1..Len(reply.data) : reply.data[i].time = NoTime
       THEN Settled("Invalid time value", <<>>)
  ELSE Settled("", [i \in 1..Len(reply.data) |->
                      Sensor(SensorId(a, reply.data[i].ch), a,
                             reply.data[i].value, reply.data[i].time)])

\* fetchEcowittData(account) on the reply of the network.  toISOString of an
\* invalid Date throws, and the catch turns the whole account into an error.
fetchEcowittData(a, reply) ==
  IF reply.kind = "throw" THEN Settled("fetch failed", <<>>)
  ELSE IF reply.kind = "code" THEN Settled("API error", <<>>)
  ELSE IF \E i \in 1..Len(reply.data) : reply.data[i].time = NoTime
       THEN Settled("Invalid time value", <<>>)
  ELSE Settled("", [i \in 1..Len(reply.data) |->
                      Sensor(SensorId(a, reply.data[i].ch), a,
                             reply.data[i].value, reply.data[i].time)])

\* generateMockSensors(): eight sensors stamped with the current time; draw
\* stands for the Math.random() part of each rounded moisture.
MockBase == <<45, 62, 28, 55, 72, 38, 51, 18>>
MockId(i) ==
  CASE i = 1 -> "account1_soil_ch1" [] i = 2 -> "account1_soil_ch2"
    [] i = 3 -> "account1_soil_ch3" [] i = 4 -> "account1_soil_ch4"
    [] i = 5 -> "account2_soil_ch1" [] i = 6 -> "account2_soil_ch2"
    [] i = 7 -> "account2_soil_ch3" [] OTHER -> "account2_soil_ch4"
generateMockSensors(t, draw) ==
  [i \in 1..8 |-> Sensor(MockId(i), IF i <= 4 THEN "account1" ELSE "account2",
                         MockBase[i] + draw, t)]
MockDraws == {0, 5}

\* The body of a response of /api/sensors; errors = <<>> is an absent list.
Response(sensors, mock, errors, lastUpdated) ==
  [sensors |-> sensors, mock |-> mock, errors |-> errors, lastUpdated |-> lastUpdated]

\* The configured accounts in the order of the accounts array.
RECURSIVE AccountsFrom(_, _)
AccountsFrom(i, accs) ==
  IF i > Len(AccountIds) THEN <<>>
  ELSE (IF AccountIds[i] \in accs THEN <<AccountIds[i]>> ELSE <<>>)
         \o AccountsFrom(i + 1, accs)

\* A mutant of flatSensors: only the first account's sensors are taken.
flatSensorsFirstOnly(res, accs) ==
  IF accs = <<>> THEN <<>> ELSE res[Head(accs)].sensors

\* results.flatMap(r => r.sensors), over the accounts in order.
RECURSIVE flatSensors(_, _)
flatSensors(res, accs) ==
  IF accs = <<>> THEN <<>>
  ELSE res[Head(accs)].sensors \o flatSensors(res, Tail(accs))

\* results.filter(r => r.error).map(...): the accounts that answered an error.
RECURSIVE collectErrors(_, _)
collectErrors(res, accs) ==
  IF accs = <<>> THEN <<>>
  ELSE (IF res[Head(accs)].error # ""
        THEN <<[accountId |-> Head(accs), error |-> res[Head(accs)].error]>>
        ELSE <<>>) \o collectErrors(res, Tail(accs))

\* A mutant of storeAll: only the last of the n readings is stored.
storeAllLastOnly(f, sensors, n, io) ==
  IF n = 0 THEN f
  ELSE storeReading(f, sensors[n].id, sensors[n].moisture, sensors[n].timestamp,
                    io[n].readOk, io[n].writeOk)

\* The store loop over the first n of allSensors; io[k] gives the outcome of
\* the file read and of the file write of the k-th storeReading.
RECURSIVE storeAll(_, _, _, _)
storeAll(f, sensors, n, io) ==
  IF n = 0 THEN f
  ELSE storeReading(storeAll(f, sensors, n - 1, io), sensors[n].id,
                    sensors[n].moisture, sensors[n].timestamp,
                    io[n].readOk, io[n].writeOk)

\* latestSensorTime: the greatest sensor timestamp in milliseconds, from 0.
RECURSIVE latestSensorTime(_)
latestSensorTime(sensors) ==
  IF sensors = <<>> THEN 0
  ELSE LET rest == latestSensorTime(SubSeq(sensors, 1, Len(sensors) - 1))
           t    == DateNow(sensors[Len(sensors)].timestamp)
       IN  IF t > rest THEN t ELSE rest

\* A mutant of cacheFresh: a snapshot aged exactly the TTL is still served.
cacheFreshInclusive(cache, cacheTime, t) ==
  cache # <<>> /\ (DateNow(t) - cacheTime) <= SENSOR_CACHE_TTL

\* sensorCache && (Date.now() - sensorCacheTime) < SENSOR_CACHE_TTL
cacheFresh(cache, cacheTime, t) ==
  cache # <<>> /\ (DateNow(t) - cacheTime) < SENSOR_CACHE_TTL

\* A mutant of allFailed: no fallback, an all-failed round is answered as is.
allFailedNever(allSensors, errors) == FALSE

\* A mutant of allFailed: the fallback is taken only when several accounts failed.
allFailedSeveral(allSensors, errors) == Len(allSensors) = 0 /\ Len(errors) > 1

\* allSensors.length === 0 && errors.length > 0
allFailed(allSensors, errors) == Len(allSensors) = 0 /\ Len(errors) > 0

\* Two requests, numbered in the order they arrive.
Requests == {1, 2}

\* What a request is recorded to have seen and done.
NoObs == [branch |-> "none", arrived |-> 0, cacheSeen |-> <<>>, ageSeen |-> 0,
          calls |-> [a \in AccountSet |-> 0], stored |-> <<>>, threw |-> FALSE]

\* The request handler up to its first await: the mock branch, the cache
\* branch, or the fan-out of one fetchEcowittData call per configured account.
SensorsStart(r) ==
  /\ pc[r] = "idle"
  /\ \A q \in Requests : q < r => pc[q] # "idle"
  /\ LET seen == [NoObs EXCEPT !.arrived = now, !.cacheSeen = sensorCache,
                               !.ageSeen = DateNow(now) - sensorCacheTime]
     IN
     IF useMock \/ accounts = {}
     THEN \E draw \in MockDraws :
            /\ resp' = [resp EXCEPT ![r] =
                          <<Response(generateMockSensors(now, draw), TRUE, <<>>, now)>>]
            /\ pc' = [pc EXCEPT ![r] = "done"]
            /\ obs' = [obs EXCEPT ![r] = [seen EXCEPT !.branch = "mock"]]
            /\ UNCHANGED results
     ELSE IF cacheFresh(sensorCache, sensorCacheTime, now)
     THEN /\ resp' = [resp EXCEPT ![r] = <<sensorCache[1]>>]
          /\ pc' = [pc EXCEPT ![r] = "done"]
          /\ obs' = [obs EXCEPT ![r] = [seen EXCEPT !.branch = "cache"]]
          /\ UNCHANGED results
     ELSE /\ results' = [results EXCEPT ![r] =
                           [a \in AccountSet |-> IF a \in accounts THEN Pending ELSE NoCall]]
          /\ pc' = [pc EXCEPT ![r] = "awaiting"]
          /\ obs' = [obs EXCEPT ![r] =
                       [seen EXCEPT !.branch = "fetch",
                                    !.calls = [a \in AccountSet |->
                                                 IF a \in accounts THEN 1 ELSE 0]]]
          /\ UNCHANGED resp
  /\ UNCHANGED <<fileVars, dsVars, configVars, now, cacheVars, histVars, setVars, clientVars>>

\* One fetchEcowittData call of a request settles.
UpstreamReply(r, a) ==
  /\ pc[r] = "awaiting"
  /\ results[r][a].status = "pending"
  /\ \E reply \in Replies(a) :
       results' = [results EXCEPT ![r][a] = fetchEcowittData(a, reply)]
  /\ UNCHANGED <<fileVars, dsVars, configVars, now, cacheVars, pc, resp, obs, histVars, setVars, clientVars>>

\* A fetchEcowittData call whose fetch never completes: the code passes no
\* timeout or abort signal, so its promise stays unsettled.
Hung == [status |-> "hung", error |-> "", sensors |-> <<>>]
UpstreamHang(r, a) ==
  /\ pc[r] = "awaiting"
  /\ results[r][a].status = "pending"
  /\ results' = [results EXCEPT ![r][a] = Hung]
  /\ UNCHANGED <<fileVars, dsVars, configVars, now, cacheVars, pc, resp, obs, histVars, setVars, clientVars>>

\* The outcomes of the file I/O of a store loop of n calls: all succeed, or
\* one call's read or write fails.
IoOk == [readOk |-> TRUE, writeOk |-> TRUE]
IoOutcomes(n) ==
  { [k \in 1..n |-> IoOk] }
    \cup { [k \in 1..n |-> IF k = j THEN [readOk |-> FALSE, writeOk |-> TRUE] ELSE IoOk]
           : j \in 1..n }
    \cup { [k \in 1..n |-> IF k = j THEN [readOk |-> TRUE, writeOk |-> FALSE] ELSE IoOk]
           : j \in 1..n }

\* The append history after the first n of allSensors were handed to storeReading.
RECURSIVE appendAll(_, _, _)
appendAll(app, sensors, n) ==
  IF n = 0 THEN app
  ELSE [appendAll(app, sensors, n - 1) EXCEPT
          ![sensors[n].id] = Append(@, Reading(sensors[n].moisture, sensors[n].timestamp))]

StoredOf(sensors, n) ==
  [k \in 1..n |-> [id |-> sensors[k].id,
                   reading |-> Reading(sensors[k].moisture, sensors[k].timestamp)]]

\* The handler after Promise.all: aggregate, store, then answer the mock
\* fallback or the real response, which is cached.  thrownAt = 0: nothing is
\* thrown; thrownAt = k: an exception is thrown in the k-th turn of the store
\* loop, before its storeReading, and the catch answers mock data.
SensorsFinish(r) ==
  /\ pc[r] = "awaiting"
  /\ \A a \in accounts : results[r][a].status = "settled"
  /\ LET accs       == AccountsFrom(1, accounts)
         allSensors == flatSensors(results[r], accs)
         errors     == collectErrors(results[r], accs)
     IN  \E thrownAt \in 0..Len(allSensors), draw \in MockDraws :
           LET n == IF thrownAt = 0 THEN Len(allSensors) ELSE thrownAt - 1
           IN  \E io \in IoOutcomes(n) :
                 /\ file' = storeAll(file, allSensors, n, io)
                 /\ appended' = appendAll(appended, allSensors, n)
                 /\ ioFailed' = (ioFailed \/ \E k \in 1..n : io[k] # IoOk)
                 /\ obs' = [obs EXCEPT ![r].stored = StoredOf(allSensors, n),
                                       ![r].threw = (thrownAt # 0)]
                 /\ pc' = [pc EXCEPT ![r] = "done"]
                 /\ IF thrownAt # 0
                    THEN /\ resp' = [resp EXCEPT ![r] =
                              <<Response(generateMockSensors(now, draw), TRUE, <<>>, now)>>]
                         /\ UNCHANGED cacheVars
                    ELSE IF allFailed(allSensors, errors)
                    THEN /\ resp' = [resp EXCEPT ![r] =
                              <<Response(generateMockSensors(now, draw), TRUE, errors, now)>>]
                         /\ UNCHANGED cacheVars
                    ELSE LET latest   == latestSensorTime(allSensors)
                             response == Response(allSensors, FALSE, errors,
                                           IF latest > 0 THEN latest \div 1000 ELSE now)
                         IN  /\ sensorCache' = <<response>>
                             /\ sensorCacheTime' = DateNow(now)
                             /\ resp' = [resp EXCEPT ![r] = <<response>>]
  /\ UNCHANGED <<dsVars, configVars, now, results, histVars, setVars, sCall, clientVars>>

\* Time passes.  The clock is sampled 4 seconds after the start and every
\* second from then on, so that a snapshot is seen just below the TTL and at it.
Tick ==
  /\ now < StartTime + 3 + MaxTicks
  /\ now' = IF now = StartTime THEN now + 4 ELSE now + 1
  /\ UNCHANGED <<fileVars, dsVars, configVars, cacheVars, reqVars, histVars, setVars, clientVars>>

\* ------------------------------------------------- the history resolver

Day == 24 * 60 * 60

\* getHistory's cutoffTime: how far back from now a period reaches, in seconds.
cutoffSeconds(period) ==
  CASE period = "1h"  -> Day
    [] period = "24h" -> Day
    [] period = "7d"  -> 7 * Day
    [] period = "30d" -> 30 * Day
    [] period = "1y"  -> 365 * Day
    [] OTHER          -> Day

\* A mutant of cutoffTime: every period gets the default's 24 hours.
cutoffTimeDefault(period, t) == t - Day

cutoffTime(period, t) == t - cutoffSeconds(period)

\* getHistory's skipFactor.
skipFactor(period) ==
  CASE period = "1h"  -> 1
    [] period = "24h" -> 5
    [] period = "7d"  -> 60
    [] period = "30d" -> 360
    [] period = "1y"  -> 1440
    [] OTHER          -> 1

\* Array.prototype.filter on the index: the elements at 0, k, 2k, ... (0-based).
RECURSIVE everyNth(_, _, _)
everyNth(seq, k, i) ==
  IF i > Len(seq) THEN <<>>
  ELSE (IF (i - 1) % k = 0 THEN <<seq[i]>> ELSE <<>>) \o everyNth(seq, k, i + 1)

\* readings.filter(r => new Date(r.timestamp) >= cutoffTime)
inWindow(readings, cutoff) ==
  SelectSeq(readings, LAMBDA r : r.timestamp # NoTime /\ r.timestamp >= cutoff)

\* The minute key of the 1h view: year, month, day, hour and minute of the
\* instant, in a zone at a fixed offset.
minuteKey(t) == t \div 60

\* A mutant of dedupByMinute: every reading is kept.
dedupNone(seq, i, keys) == seq

\* The Map seen of the 1h view: the first reading of each minute key, in the
\* order the keys were first met.
RECURSIVE dedupByMinute(_, _, _)
dedupByMinute(seq, i, keys) ==
  IF i > Len(seq) THEN <<>>
  ELSE IF minuteKey(seq[i].timestamp) \in keys THEN dedupByMinute(seq, i + 1, keys)
  ELSE <<seq[i]>> \o dedupByMinute(seq, i + 1, keys \cup {minuteKey(seq[i].timestamp)})

\* reduced.sort((a, b) => new Date(a.timestamp) - new Date(b.timestamp))
RECURSIVE insertByTimestamp(_, _)
insertByTimestamp(sorted, x) ==
  IF sorted = <<>> THEN <<x>>
  ELSE IF sorted[Len(sorted)].timestamp <= x.timestamp THEN Append(sorted, x)
  ELSE Append(insertByTimestamp(SubSeq(sorted, 1, Len(sorted) - 1), x), sorted[Len(sorted)])

RECURSIVE sortByTimestampFrom(_, _, _)
sortByTimestampFrom(seq, k, acc) ==
  IF k > Len(seq) THEN acc
  ELSE sortByTimestampFrom(seq, k + 1, insertByTimestamp(acc, seq[k]))

sortByTimestamp(seq) == sortByTimestampFrom(seq, 1, <<>>)

\* getHistory(sensorId, period) on the file f at time t; readOk is the outcome
\* of the file read.  The label of a point is left out.
getHistory(f, sensorId, period, t, readOk) ==
  LET readings == loadHistory(f, readOk)[sensorId]
      filtered == inWindow(readings, cutoffTime(period, t))
      reduced  == everyNth(filtered, skipFactor(period), 1)
  IN  IF Len(readings) = 0 THEN <<>>
      ELSE IF period = "1h" THEN sortByTimestamp(dedupByMinute(reduced, 1, {}))
      ELSE reduced

\* The sensor ids a history request is made with: a configured account's
\* sensor, another account's, and one that does not match the pattern.
RequestIds == {"account1_soil_ch1", "account2_soil_ch1", "garden"}

\* sensorId.match(/^(account\d+)_soil_ch(\d+)$/): the account id, "" for no match.
matchAccount(sensorId) ==
  CASE sensorId \in {"account1_soil_ch1", "account1_soil_ch2"} -> "account1"
    [] sensorId = "account2_soil_ch1" -> "account2"
    [] OTHER -> ""

\* The body of a response of the history endpoint; source = "" and error = ""
\* are absent fields.
HistResponse(sensorId, period, data, source, error) ==
  [sensorId |-> sensorId, period |-> period, data |-> data,
   source |-> source, error |-> error]

\* What the history call of the network can come back with: the fetch throws,
\* a non-zero code, code 0 without the channel's list, code 0 with a list, and
\* code 0 with a list holding a key that is no number.
\* The lists an upstream history call answers in a run of the resolver.
HistLists == { l \in AscLists : Len(l) <= MaxLen - 3 }
HistReplies ==
  { [kind |-> k, list |-> <<>>] : k \in {"throw", "code", "nochannel"} }
    \cup { [kind |-> "list", list |-> l] : l \in HistLists }
    \cup { [kind |-> "badkey", list |-> <<Point(NoTime, 50)>>] }

NoHistObs == [calls |-> 0, reply |-> "", readOk |-> TRUE]

\* A mutant of servedLocally: the 1h view goes to the upstream call as well.
servedLocallyNever(period) == FALSE

\* if (period === '1h'): the view answered from local data before any fetch.
servedLocally(period) == period = "1h"

\* The points of the ecowitt response: the reduced readings with their time
\* as an instant.
toData(reduced) == [i \in 1..Len(reduced) |-> Reading(reduced[i].value, reduced[i].time)]

\* The handler up to its await: the id and account checks, the 1h view, or
\* the call of fetchEcowittHistory.
HistoryStart ==
  /\ hPc = "idle"
  /\ \E sensorId \in RequestIds, period \in Periods, readOk \in BOOLEAN :
       /\ hReq' = [sensorId |-> sensorId, period |-> period]
       /\ IF matchAccount(sensorId) = ""
          THEN /\ hResp' = <<HistResponse(sensorId, period, <<>>, "", "Invalid sensor ID format")>>
               /\ hPc' = "done"
               /\ hObs' = NoHistObs
          ELSE IF matchAccount(sensorId) \notin accounts
          THEN /\ hResp' = <<HistResponse(sensorId, period, <<>>, "", "Account not found")>>
               /\ hPc' = "done"
               /\ hObs' = NoHistObs
          ELSE IF servedLocally(period)
          THEN /\ hResp' = <<HistResponse(sensorId, period,
                                getHistory(file, sensorId, "1h", now, readOk), "local", "")>>
               /\ hPc' = "done"
               /\ hObs' = [NoHistObs EXCEPT !.readOk = readOk]
          ELSE /\ hResp' = <<>>
               /\ hPc' = "awaiting"
               /\ hObs' = [NoHistObs EXCEPT !.calls = 1]
  /\ UNCHANGED <<fileVars, dsVars, pollerVars, setVars, clientVars>>

\* fetchEcowittHistory settles and the handler runs to its response.
HistoryFinish ==
  /\ hPc = "awaiting"
  /\ \E reply \in HistReplies, readOk \in BOOLEAN :
       LET sensorId == hReq.sensorId
           period   == hReq.period
           local    == getHistory(file, sensorId, period, now, readOk)
       IN  /\ hPc' = "done"
           /\ hObs' = [hObs EXCEPT !.reply = reply.kind,
                                   !.readOk = (reply.kind = "list" \/ readOk)]
           /\ IF reply.kind \in {"throw", "code", "nochannel"}
              THEN hResp' = <<HistResponse(sensorId, period, local, "local", "")>>
              ELSE IF reply.kind = "badkey"
              THEN hResp' = <<HistResponse(sensorId, period, local, "local", "Invalid time value")>>
              ELSE hResp' = <<HistResponse(sensorId, period,
                                toData(downsample(parseList(reply.list), maxPoints(period))),
                                "ecowitt", "")>>
  /\ UNCHANGED <<hReq, fileVars, dsVars, pollerVars, setVars, clientVars>>

\* ------------------------------------------------------ the Settings Store

\* The sensors whose plants are named, coloured and given thresholds.
PlantIds == {"account1_soil_ch1", "account2_soil_ch1"}

\* A field of a settings object or of a request body is <<>> when it is
\* undefined and <<value>> otherwise.  names, colors and thresholds map a
\* sensor id to a string, "" for no entry; order and hidden are lists of ids.
EmptyMap == [s \in PlantIds |-> ""]
EmptyList == <<>>
Settings(names, colors, order, hidden, thresholds) ==
  [names |-> names, colors |-> colors, order |-> order, hidden |-> hidden,
   thresholds |-> thresholds]
NoFields == Settings(<<>>, <<>>, <<>>, <<>>, <<>>)
SettingsFields == {"names", "colors", "order", "hidden", "thresholds"}

\* { names: {}, colors: {}, order: [], hidden: [], thresholds: {} }
DefaultSettings ==
  Settings(<<EmptyMap>>, <<EmptyMap>>, <<EmptyList>>, <<EmptyList>>, <<EmptyMap>>)

\* plant_settings.json: not there, not parsable, or a persisted object.
MissingFile == [kind |-> "missing", rec |-> NoFields]
CorruptFile == [kind |-> "corrupt", rec |-> NoFields]
RecordFile(settings) == [kind |-> "record", rec |-> settings]

\* A mutant of loadSettings: a read that fails returns the persisted record all the same.
loadSettingsAnyway(f, readOk) ==
  IF f.kind = "record"
  THEN (IF f.rec.thresholds = <<>> THEN [f.rec EXCEPT !.thresholds = <<EmptyMap>>] ELSE f.rec)
  ELSE DefaultSettings

\* loadSettings: the parsed file with thresholds defaulted, or the all-empty
\* record when the file is missing or reading or parsing it throws.
loadSettings(f, readOk) ==
  IF f.kind = "record" /\ readOk
  THEN (IF f.rec.thresholds = <<>> THEN [f.rec EXCEPT !.thresholds = <<EmptyMap>>] ELSE f.rec)
  ELSE DefaultSettings

\* saveSettings: the file rewritten, or left as it was when the write fails.
\* JSON.stringify leaves an undefined field out of the written object.
saveSettings(f, settings, writeOk) == IF writeOk THEN RecordFile(settings) ELSE f

\* A mutant of mergeSettings: the record is replaced by the request body.
mergeSettingsReplace(body, currentSettings) == body

\* newSettings of POST /api/settings: each field of the body that is not
\* undefined, else the field of the current settings.
mergeSettings(body, currentSettings) ==
  Settings(IF body.names # <<>> THEN body.names ELSE currentSettings.names,
           IF body.colors # <<>> THEN body.colors ELSE currentSettings.colors,
           IF body.order # <<>> THEN body.order ELSE currentSettings.order,
           IF body.hidden # <<>> THEN body.hidden ELSE currentSettings.hidden,
           IF body.thresholds # <<>> THEN body.thresholds ELSE currentSettings.thresholds)

\* The values a request sets: one entry of a map, a whole map, a whole list.
NewMap == [s \in PlantIds |-> IF s = "account1_soil_ch1" THEN "set" ELSE ""]
NewList == <<"account2_soil_ch1", "account1_soil_ch1">>

\* The bodies of POST /api/settings: no field, one field, or all five.
FullBody == Settings(<<NewMap>>, <<NewMap>>, <<NewList>>, <<NewList>>, <<NewMap>>)
Bodies ==
  { NoFields, FullBody }
    \cup { [NoFields EXCEPT ![fld] = FullBody[fld]]
            : fld \in SettingsFields }

\* The outcomes of the file read and the file write of one request: both
\* succeed, or one of them fails.
SettingsIo ==
  { [readOk |-> TRUE, writeOk |-> TRUE], [readOk |-> FALSE, writeOk |-> TRUE],
    [readOk |-> TRUE, writeOk |-> FALSE] }

\* The last settings request: the endpoint, the request body, the file before
\* it, the outcome of the file read and write, whether a response was sent
\* ("ok") or the handler threw ("error"), and the settings in the response.
SettingsOp(op, body, before, readOk, writeOk, status, sent) ==
  [op |-> op, body |-> body, before |-> before, readOk |-> readOk,
   writeOk |-> writeOk, status |-> status, sent |-> sent]
NoOp == SettingsOp("none", NoFields, MissingFile, TRUE, TRUE, "ok", NoFields)

\* GET /api/settings
GetSettings ==
  /\ \E readOk \in BOOLEAN :
       sOp' = SettingsOp("get", NoFields, settingsFile, readOk, TRUE, "ok",
                         loadSettings(settingsFile, readOk))
  /\ UNCHANGED <<settingsFile, fileVars, dsVars, pollerVars, histVars, clientVars>>

\* POST /api/settings
PostSettings ==
  /\ \E body \in Bodies, io \in SettingsIo :
       LET currentSettings == loadSettings(settingsFile, io.readOk)
           newSettings     == mergeSettings(body, currentSettings)
       IN  /\ settingsFile' = saveSettings(settingsFile, newSettings, io.writeOk)
           /\ sOp' = SettingsOp("merge", body, settingsFile, io.readOk, io.writeOk,
                                "ok", newSettings)
  /\ UNCHANGED <<fileVars, dsVars, pollerVars, histVars, clientVars>>

\* settings[field][sensorId] = value: a TypeError when the field is undefined.
\* POST /api/settings/name, /color and /threshold; the threshold handler
\* first sets an undefined thresholds to {}.
PostEntry(field) ==
  /\ \E io \in SettingsIo :
       LET sensorId == "account1_soil_ch1"
           loaded   == loadSettings(settingsFile, io.readOk)
           settings == IF field = "thresholds" /\ loaded.thresholds = <<>>
                       THEN [loaded EXCEPT !.thresholds = <<EmptyMap>>] ELSE loaded
           body     == [NoFields EXCEPT ![field] = <<[EmptyMap EXCEPT ![sensorId] = "set"]>>]
       IN  IF settings[field] = <<>>
           THEN /\ sOp' = SettingsOp(field, body, settingsFile, io.readOk, io.writeOk,
                                     "error", NoFields)
                /\ UNCHANGED settingsFile
           ELSE LET updated == [settings EXCEPT ![field] = <<[@[1] EXCEPT ![sensorId] = "set"]>>]
                IN  /\ settingsFile' = saveSettings(settingsFile, updated, io.writeOk)
                    /\ sOp' = SettingsOp(field, body, settingsFile, io.readOk, io.writeOk,
                                         "ok", [NoFields EXCEPT ![field] = updated[field]])
  /\ UNCHANGED <<fileVars, dsVars, pollerVars, histVars, clientVars>>

\* settings[field] = value: POST /api/settings/order and /hidden.
PostList(field) ==
  /\ \E io \in SettingsIo :
       LET settings == loadSettings(settingsFile, io.readOk)
           updated  == [settings EXCEPT ![field] = <<NewList>>]
       IN  /\ settingsFile' = saveSettings(settingsFile, updated, io.writeOk)
           /\ sOp' = SettingsOp(field, [NoFields EXCEPT ![field] = <<NewList>>], settingsFile,
                                io.readOk, io.writeOk, "ok",
                                [NoFields EXCEPT ![field] = updated[field]])
  /\ UNCHANGED <<fileVars, dsVars, pollerVars, histVars, clientVars>>

\* ------------------------------------------ the parts of the state at rest

StoreIdle ==
  /\ file = EmptyHistory
  /\ appended = [s \in SensorIds |-> <<>>]
  /\ ioFailed = FALSE
  /\ sCall = NoStoreCall

DownIdle ==
  /\ dsList = <<>>
  /\ dsPeriod = "24h"
  /\ dsOut = <<>>
  /\ dsDone = TRUE

\* The server has just started: no cache, no request handled.
PollerStart ==
  /\ now = StartTime
  /\ sensorCache = <<>>
  /\ sensorCacheTime = 0
  /\ pc = [r \in Requests |-> "idle"]
  /\ results = [r \in Requests |-> [a \in AccountSet |-> NoCall]]
  /\ resp = [r \in Requests |-> <<>>]
  /\ obs = [r \in Requests |-> NoObs]

PollerIdle ==
  /\ useMock = FALSE
  /\ accounts = AccountSet
  /\ PollerStart

\* --------------------------------------------- the useEcowittData hook

\* What a call of fetchSensors() settles with: the parsed body of a 200
\* response, a body without a sensors array, or a rejection.
Fulfilled(data) == [kind |-> "data", data |-> <<data>>, isError |-> FALSE, message |-> ""]
Malformed == [kind |-> "malformed", data |-> <<>>, isError |-> FALSE, message |-> ""]
Rejected(isError, message) ==
  [kind |-> "reject", data |-> <<>>, isError |-> isError, message |-> message]

FetchOutcomes ==
  { Fulfilled(Response(<<>>, FALSE, <<>>, StartTime)),
    Fulfilled(Response(<<Sensor("account1_soil_ch1", "account1", 43, 70)>>,
                       FALSE, <<>>, StartTime + 4)),
    Malformed,
    Rejected(TRUE, "API error: 500"),
    Rejected(TRUE, "Failed to fetch") }

\* The message the catch block of refresh sets: a body without sensors makes
\* data.sensors.length throw a TypeError.
catchMessage(outcome) ==
  IF outcome.kind = "malformed" THEN "Cannot read properties of undefined"
  ELSE IF outcome.isError THEN outcome.message
  ELSE "Failed to fetch data"

Event(kind, outcome) == [kind |-> kind, outcome |-> outcome]
NoEvent == Event("", "")

\* A mutant of refreshGuard: refresh goes ahead whatever the flag.
refreshGuardNone(flag) == TRUE

\* if (refreshingRef.current) return;  a refresh goes ahead when the flag is clear.
refreshGuard(flag) == ~flag

\* A call of refresh() up to its await: dropped when the flag is set, and
\* otherwise the flag is set, loading is shown before the first load, and
\* fetchSensors is called.
refreshCall(kind) ==
  IF refreshGuard(refreshingRef)
  THEN /\ refreshingRef' = TRUE
       /\ uiLoading' = (IF ~hasLoadedRef THEN TRUE ELSE uiLoading)
       /\ inFlight' = inFlight + 1
       /\ cEvent' = Event(kind, "started")
       /\ UNCHANGED <<hasLoadedRef, uiSensors, uiError, uiLastUpdated>>
  ELSE /\ cEvent' = Event(kind, "dropped")
       /\ UNCHANGED <<refreshingRef, hasLoadedRef, uiVars, inFlight>>

\* The effects of the hook run: the initial refresh() and setInterval.  Under
\* React.StrictMode they run, are cleaned up, and run once more.
RunEffects ==
  /\ effectRuns < 2
  /\ effectRuns' = effectRuns + 1
  /\ refreshCall("mount")
  /\ UNCHANGED <<polls, fileVars, dsVars, pollerVars, histVars, setVars>>

\* The 10-second timer fires: refresh() is called only when the flag is clear.
PollTick ==
  /\ effectRuns > 0
  /\ polls < MaxPolls
  /\ polls' = polls + 1
  /\ IF ~refreshingRef
     THEN refreshCall("tick")
     ELSE /\ cEvent' = Event("tick", "dropped")
          /\ UNCHANGED <<refreshingRef, hasLoadedRef, uiVars, inFlight>>
  /\ UNCHANGED <<effectRuns, fileVars, dsVars, pollerVars, histVars, setVars>>

\* The caller of the hook calls the refresh it was returned (onRefresh).
CallerRefresh ==
  /\ effectRuns > 0
  /\ refreshCall("caller")
  /\ UNCHANGED <<effectRuns, polls, fileVars, dsVars, pollerVars, histVars, setVars>>

\* A call of fetchSensors settles and refresh resumes after its await: the
\* try block or the catch block, then finally.
FetchSettles ==
  \E outcome \in FetchOutcomes :
    /\ inFlight > 0
    /\ inFlight' = inFlight - 1
    /\ IF outcome.kind = "data"
       THEN LET data == outcome.data[1]
            IN  /\ uiSensors' = (IF Len(data.sensors) > 0 THEN data.sensors ELSE uiSensors)
                /\ uiLastUpdated' = <<data.lastUpdated>>
                /\ uiError' = <<>>
                /\ hasLoadedRef' = TRUE
                /\ cEvent' = Event("settle", "ok")
       ELSE /\ uiError' = <<catchMessage(outcome)>>
            /\ cEvent' = Event("settle", "failed")
            /\ UNCHANGED <<uiSensors, uiLastUpdated, hasLoadedRef>>
    /\ uiLoading' = FALSE
    /\ refreshingRef' = FALSE
    /\ UNCHANGED <<effectRuns, polls, fileVars, dsVars, pollerVars, histVars, setVars>>

\* No history request has arrived.
HistIdle ==
  /\ hPc = "idle"
  /\ hReq = [sensorId |-> "", period |-> ""]
  /\ hResp = <<>>
  /\ hObs = NoHistObs

\* No settings request has arrived and no settings were ever saved.
SetIdle ==
  /\ settingsFile = MissingFile
  /\ sOp = NoOp

\* The hook has rendered once and its effects have not run.
ClientIdle ==
  /\ refreshingRef = FALSE
  /\ hasLoadedRef = FALSE
  /\ uiSensors = <<>>
  /\ uiLoading = TRUE
  /\ uiError = <<>>
  /\ uiLastUpdated = <<>>
  /\ inFlight = 0
  /\ effectRuns = 0
  /\ polls = 0
  /\ cEvent = NoEvent

\* ------------------------------------------ specification: the downsampling

DownInit ==
  /\ ClientIdle
  /\ StoreIdle
  /\ PollerIdle
  /\ HistIdle
  /\ SetIdle
  /\ dsList \in AscLists \cup { Reverse(l) : l \in AscLists }
  /\ dsPeriod \in UpstreamPeriods
  /\ dsOut = <<>>
  /\ dsDone = FALSE

\* Lines 506-553 of the handler on the list received.
Downsampling ==
  /\ ~dsDone
  /\ dsOut' = downsample(parseList(dsList), maxPoints(dsPeriod))
  /\ dsDone' = TRUE
  /\ UNCHANGED <<dsList, dsPeriod, fileVars, pollerVars, histVars, setVars, clientVars>>

DownNext == Downsampling

SpecDown == DownInit /\ [][DownNext]_vars

\* ------------------------------------------- specification: the client

ClientInit ==
  /\ StoreIdle
  /\ DownIdle
  /\ PollerIdle
  /\ HistIdle
  /\ SetIdle
  /\ ClientIdle

ClientNext == RunEffects \/ PollTick \/ CallerRefresh \/ FetchSettles

SpecClient == ClientInit /\ [][ClientNext]_vars

\* ------------------------------------------------ specification: the store

StoreInit ==
  /\ ClientIdle
  /\ StoreIdle
  /\ DownIdle
  /\ PollerIdle
  /\ HistIdle
  /\ SetIdle

\* The sensors the store is driven with: one of each account.
StoreSensors == {"account1_soil_ch1", "account2_soil_ch1"}

\* One call of storeReading, with any input and any outcome of the file I/O.
StoreReading ==
  \E s \in StoreSensors, m \in {40, 43}, t \in {60},
     readOk \in BOOLEAN, writeOk \in BOOLEAN :
    /\ Len(appended[s]) <= MaxReadings
    /\ file' = storeReading(file, s, m, t, readOk, writeOk)
    /\ appended' = [appended EXCEPT ![s] = Append(@, Reading(m, t))]
    /\ ioFailed' = (ioFailed \/ ~readOk \/ ~writeOk)
    /\ sCall' = StoreCall(s, Reading(m, t), readOk, writeOk)
    /\ UNCHANGED <<dsVars, pollerVars, histVars, setVars, clientVars>>

StoreNext == StoreReading

SpecStore == StoreInit /\ [][StoreNext]_vars

\* ----------------------------------------------- specification: the poller

SensorsInit ==
  /\ ClientIdle
  /\ StoreIdle
  /\ DownIdle
  /\ HistIdle
  /\ SetIdle
  /\ useMock \in BOOLEAN
  /\ accounts \in SUBSET AccountSet
  /\ PollerStart

SensorsNext ==
  \/ \E r \in Requests : SensorsStart(r)
  \/ \E r \in Requests, a \in AccountSet : UpstreamReply(r, a)
  \/ \E r \in Requests : SensorsFinish(r)
  \/ Tick

SpecSensors == SensorsInit /\ [][SensorsNext]_vars

\* ------------------------------------- specification: the history resolver

\* The readings a stored series is made of: 40 days old, 3 days old, and three
\* of the last two minutes, two of them in the same minute.
HistReadings ==
  { Reading(47, StartTime - 40 * Day), Reading(45, StartTime - 3 * Day),
    Reading(40, 10), Reading(43, 70), Reading(41, 75) }

RECURSIVE SeqsUpTo(_, _)
SeqsUpTo(S, n) ==
  IF n = 0 THEN { <<>> }
  ELSE LET shorter == SeqsUpTo(S, n - 1)
       IN  shorter \cup { Append(q, x) : q \in { q \in shorter : Len(q) = n - 1 }, x \in S }

\* Any series within the cap is one storeReading can have left in the file.
HistInit ==
  /\ ClientIdle
  /\ \E series \in SeqsUpTo(HistReadings, MaxReadings) :
       file = [EmptyHistory EXCEPT !["account1_soil_ch1"] = series]
  /\ appended = file
  /\ ioFailed = FALSE
  /\ sCall = NoStoreCall
  /\ DownIdle
  /\ useMock = FALSE
  /\ accounts \in {{}, {"account1"}}
  /\ PollerStart
  /\ HistIdle
  /\ SetIdle

HistNext == HistoryStart \/ HistoryFinish

SpecHistory == HistInit /\ [][HistNext]_vars

\* ------------------------- specification: the store at its cap, and a query

\* A series that has reached the cap, one reading every ten seconds.
FullSeries == [i \in 1..MaxReadings |-> Reading(40 + i, 10 * i)]

\* Both stored sensors are at the cap: each takes one more reading, and the
\* history of account1's sensor is requested.
PersistInit ==
  /\ ClientIdle
  /\ file = [s \in SensorIds |-> IF s \in StoreSensors THEN FullSeries ELSE <<>>]
  /\ appended = file
  /\ ioFailed = FALSE
  /\ sCall = NoStoreCall
  /\ DownIdle
  /\ useMock = FALSE
  /\ accounts = {"account1"}
  /\ PollerStart
  /\ HistIdle
  /\ SetIdle

PersistNext == StoreReading \/ HistoryStart \/ HistoryFinish

SpecPersist == PersistInit /\ [][PersistNext]_vars

\* ------------------------------ specification: the poller, with progress

LiveInit ==
  /\ ClientIdle
  /\ StoreIdle
  /\ DownIdle
  /\ HistIdle
  /\ SetIdle
  /\ useMock = FALSE
  /\ accounts = {"account2"}
  /\ PollerStart

LiveNext ==
  \/ SensorsNext
  \/ \E r \in Requests, a \in AccountSet : UpstreamHang(r, a)

\* A call that has not hung is answered by the network, and the event loop
\* runs the handler's continuation once every promise of Promise.all settled.
LiveFairness ==
  /\ \A r \in Requests : WF_vars(SensorsFinish(r))
  /\ \A r \in Requests, a \in AccountSet : WF_vars(UpstreamReply(r, a))

SpecLive == LiveInit /\ [][LiveNext]_vars /\ LiveFairness

\* ------------------------------- specification: queries on a longer series

\* Two readings of the last two minutes; a series holds them in any order.
QueryReadings == { Reading(40, 10), Reading(43, 70) }

\* The history resolver on a file whose series is long enough for the
\* skipFactor of the 24h view to keep more than one reading.
QueryInit ==
  /\ ClientIdle
  /\ \E series \in [1..QueryLen -> QueryReadings] :
       file = [EmptyHistory EXCEPT !["account1_soil_ch1"] = series]
  /\ appended = file
  /\ ioFailed = FALSE
  /\ sCall = NoStoreCall
  /\ DownIdle
  /\ useMock = FALSE
  /\ accounts = {"account1"}
  /\ PollerStart
  /\ HistIdle
  /\ SetIdle

SpecQuery == QueryInit /\ [][HistNext]_vars

\* --------------------------------------- specification: the settings store

\* The values of a record persisted earlier.
OldMap == [s \in PlantIds |-> IF s = "account2_soil_ch1" THEN "old" ELSE ""]
OldList == <<"account2_soil_ch1">>

\* The records found at start: one written by this server, one written
\* before thresholds were added, and one older still, without colors and hidden.
OldRecords ==
  { Settings(<<OldMap>>, <<OldMap>>, <<OldList>>, <<OldList>>, <<OldMap>>),
    Settings(<<OldMap>>, <<OldMap>>, <<OldList>>, <<OldList>>, <<>>),
    Settings(<<OldMap>>, <<>>, <<OldList>>, <<>>, <<>>) }

SettingsInit ==
  /\ ClientIdle
  /\ StoreIdle
  /\ DownIdle
  /\ PollerIdle
  /\ HistIdle
  /\ settingsFile \in {MissingFile, CorruptFile} \cup { RecordFile(r) : r \in OldRecords }
  /\ sOp = NoOp

SettingsNext ==
  \/ GetSettings
  \/ PostSettings
  \/ \E field \in {"names", "colors", "thresholds"} : PostEntry(field)
  \/ \E field \in {"order", "hidden"} : PostList(field)

SpecSettings == SettingsInit /\ [][SettingsNext]_vars

\* ------------------------------------------------------------------ claims

\* C1 (as stated): for every sensor the persisted series never holds more than
\* the cap, and once more than the cap have been appended it is exactly the
\* most recently appended cap readings, in append order.
C1_RetentionAsStated ==
  \A s \in SensorIds :
    /\ Len(file[s]) <= MaxReadings
    /\ Len(appended[s]) > MaxReadings =>
         file[s] = SliceLast(appended[s], MaxReadings)

\* C1 (amended): the persisted series never holds more than the cap; and as
\* long as no read or write of the history file has failed, once more than the
\* cap have been appended it is exactly the most recently appended cap
\* readings, in append order.
C1_Retention ==
  \A s \in SensorIds :
    /\ Len(file[s]) <= MaxReadings
    /\ (~ioFailed /\ Len(appended[s]) > MaxReadings) =>
         /\ Len(file[s]) = MaxReadings
         /\ file[s] = SliceLast(appended[s], MaxReadings)

\* C1 witness: a sensor has overflowed the cap with no I/O failure, and the
\* oldest reading it was given has been evicted.
C1_Witness ==
  \E s \in SensorIds :
    /\ ~ioFailed
    /\ Len(appended[s]) > MaxReadings
    /\ Len(file[s]) = MaxReadings
    /\ appended[s][1] # file[s][1]

\* The partition of the readings r into buckets of size n, numbered from 0,
\* and the least and the greatest value of a set of points.
BucketCount(r, n) == Ceil(Len(r), n)
BucketOf(r, n, b) == { r[i] : i \in (b * n + 1)..Min2((b + 1) * n, Len(r)) }
Least(ps) == CHOOSE v \in { p.value : p \in ps } : \A p \in ps : v <= p.value
Greatest(ps) == CHOOSE v \in { p.value : p \in ps } : \A p \in ps : v >= p.value

\* Downsampling was performed: the list is longer than the period's budget.
DsDownsampled == dsDone /\ Len(dsList) > maxPoints(dsPeriod)

\* C2 (as stated): the output of the downsampling on the upstream-history path
\* has at most the period's budget of points.
C2_WithinBudget == dsDone => Len(dsOut) <= maxPoints(dsPeriod)

\* C4: when downsampling is performed, for every bucket whose greatest and
\* least moisture differ by at least 2 the output holds a reading of the
\* bucket with the least value and one with the greatest value, placed in
\* ascending time order relative to each other.
C4_ExtremaPreserved ==
  DsDownsampled =>
    LET r == parseList(dsList)
        n == Ceil(Len(r), maxPoints(dsPeriod))
    IN  \A b \in 0..(BucketCount(r, n) - 1) :
          LET ps == BucketOf(r, n, b)
              lo == Least(ps)
              hi == Greatest(ps)
          IN  hi - lo >= 2 =>
                \E i, j \in 1..Len(dsOut) :
                  /\ dsOut[i] \in ps /\ dsOut[i].value = lo
                  /\ dsOut[j] \in ps /\ dsOut[j].value = hi
                  /\ (dsOut[i].time < dsOut[j].time) <=> (i < j)

\* C4 witness: a downsampled list with a bucket of three or more readings
\* whose greatest value comes before its least, two apart, both in the output.
C4_Witness ==
  /\ DsDownsampled
  /\ LET r == parseList(dsList)
         n == Ceil(Len(r), maxPoints(dsPeriod))
     IN  \E b \in 0..(BucketCount(r, n) - 1), i, j \in 1..Len(dsOut) :
           LET ps == BucketOf(r, n, b)
           IN  /\ Cardinality(ps) >= 3
               /\ Greatest(ps) - Least(ps) >= 2
               /\ dsOut[i] \in ps /\ dsOut[i].value = Greatest(ps)
               /\ dsOut[j] \in ps /\ dsOut[j].value = Least(ps)
               /\ i < j

\* The response a finished request was sent, and the accounts of its round
\* that answered an error or answered data.
RespOf(r) == resp[r][1]
Failing(r) == { a \in accounts : results[r][a].status = "settled" /\ results[r][a].error # "" }
Succeeding(r) == { a \in accounts : results[r][a].status = "settled" /\ results[r][a].error = "" }
Range(seq) == { seq[i] : i \in 1..Len(seq) }

\* C7 (as stated, for a first request that was answered from real data): with
\* real accounts configured, two requests that arrive within 5 seconds of each
\* other cause only one round of upstream calls between them and are sent the
\* same result, whatever their interleaving.
C7_OneRoundPerWindow ==
  \A r1, r2 \in Requests :
    ( /\ r1 < r2
      /\ pc[r1] = "done" /\ pc[r2] = "done"
      /\ ~useMock /\ accounts # {}
      /\ (obs[r2].arrived - obs[r1].arrived) * 1000 < 5000
      /\ ~RespOf(r1).mock )
    => /\ Cardinality({ r \in {r1, r2} : obs[r].branch = "fetch" }) <= 1
       /\ RespOf(r1) = RespOf(r2)

\* C8: a request that finds a cached snapshot younger than 5 seconds is sent
\* exactly that snapshot, makes no upstream call and stores no reading; and a
\* request is answered from the cache only if the snapshot it found was
\* younger than 5 seconds.
C8_CacheHit ==
  \A r \in Requests :
    pc[r] = "done" =>
      LET fresh == obs[r].cacheSeen # <<>> /\ obs[r].ageSeen < 5000
      IN  /\ fresh => /\ resp[r] = obs[r].cacheSeen
                      /\ \A a \in AccountSet : obs[r].calls[a] = 0
                      /\ results[r] = [a \in AccountSet |-> NoCall]
                      /\ obs[r].stored = <<>>
          /\ obs[r].branch = "cache" => fresh
          /\ (obs[r].cacheSeen # <<>> /\ obs[r].ageSeen >= 5000) =>
               /\ obs[r].branch = "fetch"
               /\ \A a \in accounts : obs[r].calls[a] = 1

\* C8 witness: a request was answered from a snapshot aged 4 seconds.
C8_Witness ==
  \E r \in Requests :
    /\ pc[r] = "done"
    /\ obs[r].branch = "cache"
    /\ obs[r].ageSeen = 4000
    /\ resp[r] = obs[r].cacheSeen

\* C9: every finished request was sent a response body; and if no account is
\* configured, or every configured account answered an error, or an exception
\* was thrown while aggregating, the body is mock data: mock is true, the
\* sensor set is not empty and lastUpdated is the time of the answer.
C9_Degradation ==
  \A r \in Requests :
    pc[r] = "done" =>
      /\ Len(resp[r]) = 1
      /\ ( \/ accounts = {}
           \/ (obs[r].branch = "fetch" /\ Failing(r) = accounts)
           \/ obs[r].threw )
         => /\ RespOf(r).mock
            /\ RespOf(r).sensors # <<>>
            /\ RespOf(r).lastUpdated >= obs[r].arrived

\* C9 witness: with accounts configured, a round in which every account
\* answered an error was answered with mock data that lists the errors.
C9_Witness ==
  \E r \in Requests :
    /\ pc[r] = "done"
    /\ accounts = AccountSet
    /\ obs[r].branch = "fetch"
    /\ Failing(r) = accounts
    /\ ~obs[r].threw
    /\ RespOf(r).mock
    /\ Len(RespOf(r).errors) = 2

\* C10 (as stated, for a round in which nothing was thrown): a non-cached
\* request makes exactly one upstream call per configured account; and when
\* some accounts fail and at least one succeeds, the result holds every sensor
\* of every succeeding account, no sensor of a failing account, and an errors
\* list naming exactly the failing accounts.
C10_ErrorIsolation ==
  \A r \in Requests :
    (pc[r] = "done" /\ obs[r].branch = "fetch" /\ ~obs[r].threw) =>
      /\ \A a \in AccountSet : obs[r].calls[a] = (IF a \in accounts THEN 1 ELSE 0)
      /\ (Failing(r) # {} /\ Succeeding(r) # {}) =>
           /\ \A a \in Succeeding(r) : Range(results[r][a].sensors) \subseteq Range(RespOf(r).sensors)
           /\ \A x \in Range(RespOf(r).sensors) : x.accountId \notin Failing(r)
           /\ { e.accountId : e \in Range(RespOf(r).errors) } = Failing(r)

\* The response the history request was sent, whether its sensor id names a
\* configured account, and the stored readings of its sensor inside the
\* lookback of its period (24 hours, 7, 30 and 365 days).
HRespOf == hResp[1]
HistConfigured == matchAccount(hReq.sensorId) # "" /\ matchAccount(hReq.sensorId) \in accounts
LookbackDays(period) ==
  CASE period = "24h" -> 1 [] period = "7d" -> 7 [] period = "30d" -> 30
    [] period = "1y" -> 365 [] OTHER -> 1
StoredInWindow ==
  SelectSeq(file[hReq.sensorId],
            LAMBDA x : x.timestamp >= now - LookbackDays(hReq.period) * 86400)

\* C3 (as stated): a history result tagged local has no more points than the
\* period's max display points.
C3_LocalWithinBudget ==
  (hPc = "done" /\ HRespOf.source = "local") =>
    Len(HRespOf.data) <= maxPoints(hReq.period)

\* C5: for a period of 24h, 7d, 30d or 1y on a configured account, if the
\* upstream call answers an error, or answers without the channel's list, or
\* an exception is thrown while resolving, the response is a result tagged
\* local whose points are stored readings of the same sensor inside the
\* period's window, starting with the first of them when the file was read.
C5_FallbackToLocal ==
  ( /\ hPc = "done"
    /\ hReq.period \in UpstreamPeriods
    /\ HistConfigured
    /\ hObs.reply \in {"throw", "code", "nochannel", "badkey"} )
  => /\ HRespOf.source = "local"
     /\ Range(HRespOf.data) \subseteq Range(StoredInWindow)
     /\ (hObs.readOk /\ StoredInWindow # <<>>) =>
          /\ HRespOf.data # <<>>
          /\ HRespOf.data[1] = StoredInWindow[1]

\* C5 witness: a 7d request whose upstream call answered an error code was
\* answered from the store with a reading three days old.
C5_Witness ==
  /\ hPc = "done"
  /\ hReq.period = "7d"
  /\ hObs.reply = "code"
  /\ HRespOf.source = "local"
  /\ HRespOf.data # <<>>
  /\ HRespOf.data[1].timestamp = StartTime - 3 * 86400

C11_MergeAsStated ==
  (sOp.op = "merge" /\ sOp.before.kind = "record") =>
    \A fld \in SettingsFields :
      IF sOp.body[fld] = <<>>
      THEN /\ sOp.sent[fld] = sOp.before.rec[fld]
           /\ settingsFile.rec[fld] = sOp.before.rec[fld]
      ELSE sOp.sent[fld] = sOp.body[fld]

\* C11 (amended): after a POST /api/settings on a persisted record that could
\* be read, every field absent from the request that the record held has its
\* previously persisted value both in the returned record and in the record
\* persisted afterwards; a field absent from both stays absent, except that
\* thresholds becomes empty; every field present in the request has the
\* request's value in the returned record, and in the persisted one when the
\* write succeeded.
C11_Merge ==
  (sOp.op = "merge" /\ sOp.before.kind = "record" /\ sOp.readOk) =>
    \A fld \in SettingsFields :
      IF sOp.body[fld] # <<>>
      THEN /\ sOp.sent[fld] = sOp.body[fld]
           /\ sOp.writeOk => settingsFile.rec[fld] = sOp.body[fld]
      ELSE IF sOp.before.rec[fld] # <<>>
      THEN /\ sOp.sent[fld] = sOp.before.rec[fld]
           /\ settingsFile.rec[fld] = sOp.before.rec[fld]
      ELSE /\ sOp.sent[fld] = (IF fld = "thresholds" THEN <<EmptyMap>> ELSE <<>>)
           /\ settingsFile.rec[fld] \in {<<>>, <<EmptyMap>>}

\* C11 witness: a request holding only hidden was merged into a full record
\* and saved: hidden was replaced, the other four fields are as they were.
C11_Witness ==
  /\ sOp.op = "merge"
  /\ sOp.before = RecordFile(Settings(<<OldMap>>, <<OldMap>>, <<OldList>>, <<OldList>>, <<OldMap>>))
  /\ sOp.body = [NoFields EXCEPT !.hidden = <<NewList>>]
  /\ sOp.readOk /\ sOp.writeOk
  /\ settingsFile = RecordFile(Settings(<<OldMap>>, <<OldMap>>, <<OldList>>, <<NewList>>, <<OldMap>>))
  /\ sOp.sent = settingsFile.rec

\* C12 (as stated): every settings request is answered; the record returned by
\* GET /api/settings holds all five fields; and every single-field update
\* succeeds, whatever record is persisted.
C12_LoadDefaults ==
  /\ sOp.status = "ok"
  /\ sOp.op = "get" => \A fld \in SettingsFields : sOp.sent[fld] # <<>>

\* C13 (as stated): the readings of a result served from the store are in
\* ascending timestamp order, whatever the order they were appended in.
C13_QueryAscending ==
  (hPc = "done" /\ HRespOf.source = "local") =>
    \A i, j \in 1..Len(HRespOf.data) :
      i < j => HRespOf.data[i].timestamp <= HRespOf.data[j].timestamp

\* C14 (as stated): every response of the history endpoint carries a source
\* tag naming one of the three tiers.
C14_SourceAlways ==
  hPc = "done" => HRespOf.source \in {"ecowitt", "local", "mock"}

\* C15 (as stated): when the sensor id is well-formed, upstream history is
\* unavailable (its account is not configured, or the call failed) and the
\* store holds no reading of the sensor in the requested window, the response
\* is a non-empty series tagged as a tier other than upstream and local.
C15_SyntheticTier ==
  ( /\ hPc = "done"
    /\ matchAccount(hReq.sensorId) # ""
    /\ hReq.period \in UpstreamPeriods
    /\ \/ matchAccount(hReq.sensorId) \notin accounts
       \/ hObs.reply \in {"throw", "code"}
    /\ StoredInWindow = <<>> )
  => /\ HRespOf.source \notin {"", "ecowitt", "local"}
     /\ HRespOf.data # <<>>

C17_FailuresSwallowed ==
  /\ [][ \A s \in SensorIds :
           appended'[s] # appended[s] =>
             /\ sCall'.sensorId = s
             /\ ~sCall'.writeOk => file' = file
             /\ (sCall'.writeOk /\ ~sCall'.readOk) =>
                  file' = [EmptyHistory EXCEPT ![s] = <<sCall'.reading>>]
             /\ (sCall'.writeOk /\ sCall'.readOk) =>
                  file' = [file EXCEPT ![s] = Truncate(Append(file[s], sCall'.reading))] ]_vars
  /\ [](( hPc = "done" /\ HistConfigured /\ ~hObs.readOk ) =>
          /\ HRespOf.source = "local"
          /\ HRespOf.data = <<>>)

\* C17 witness: the history of a sensor whose stored series is not empty was
\* requested, the file read failed, and the request was answered with no
\* points, tagged local; and a storeReading whose write failed came before.
C17_Witness ==
  /\ hPc = "done"
  /\ HistConfigured
  /\ ~hObs.readOk
  /\ file[hReq.sensorId] # <<>>
  /\ HRespOf.source = "local"
  /\ HRespOf.data = <<>>
  /\ ~sCall.writeOk
  /\ sCall.sensorId = hReq.sensorId

\* The sensors a finished request obtained from its round of upstream calls.
Obtained(r) == flatSensors(results[r], AccountsFrom(1, accounts))
Fetched(r) == pc[r] = "done" /\ obs[r].branch = "fetch"

C19_FlatBucket ==
  DsDownsampled =>
    LET r == parseList(dsList)
        n == Ceil(Len(r), maxPoints(dsPeriod))
    IN  \A b \in 0..(BucketCount(r, n) - 1) :
          LET ps       == BucketOf(r, n, b)
              lo       == Least(ps)
              hi       == Greatest(ps)
              extremes == { p \in ps : p.value \in {lo, hi} }
              first    == CHOOSE p \in extremes : \A q \in extremes : p.time <= q.time
              kept     == { i \in 1..Len(dsOut) : dsOut[i] \in ps }
          IN  hi - lo < 2 =>
                /\ Cardinality(kept) = 1
                /\ \A i \in kept : dsOut[i] = first

\* C19 witness: a downsampled list with a bucket of two or more readings one
\* apart whose greatest value comes first; only that reading is in the output.
C19_Witness ==
  /\ DsDownsampled
  /\ LET r == parseList(dsList)
         n == Ceil(Len(r), maxPoints(dsPeriod))
     IN  \E b \in 0..(BucketCount(r, n) - 1) :
           LET ps   == BucketOf(r, n, b)
               kept == { i \in 1..Len(dsOut) : dsOut[i] \in ps }
           IN  /\ Cardinality(ps) >= 2
               /\ Greatest(ps) - Least(ps) = 1
               /\ Cardinality(kept) = 1
               /\ \A i \in kept : /\ dsOut[i].value = Greatest(ps)
                                   /\ \A q \in ps : dsOut[i].time <= q.time

\* C20 (as stated): the downsampling applied with the same budget to its own
\* output returns that output unchanged.
C20_Idempotent ==
  dsDone => downsample(dsOut, maxPoints(dsPeriod)) = dsOut

\* Ascending by time, strictly: no two points share an instant.
AscendingByTime(seq) == \A i, j \in 1..Len(seq) : i < j => seq[i].time < seq[j].time

\* C21: a list no longer than the period's budget comes out of the engine with
\* every entry and nothing else, in ascending time order; a list that was
\* received in ascending order comes out element for element.
C21_UnderBudget ==
  (dsDone /\ Len(dsList) <= maxPoints(dsPeriod)) =>
    /\ Len(dsOut) = Len(dsList)
    /\ Range(dsOut) = Range(dsList)
    /\ AscendingByTime(dsOut)
    /\ AscendingByTime(dsList) => dsOut = dsList

\* C21 witness: a list of exactly the budget of 7d, with a spread of 2, came
\* out unchanged.
C21_Witness ==
  /\ dsDone
  /\ dsPeriod = "7d"
  /\ Len(dsList) = maxPoints("7d")
  /\ AscendingByTime(dsList)
  /\ dsList[1].value = 52 /\ dsList[2].value = 50
  /\ dsOut = dsList

\* C22: the points of the upstream-success path are in ascending time order
\* whatever the order the entries were received in, with and without
\* downsampling.
C22_UpstreamAscending == dsDone => AscendingByTime(dsOut)

\* C22 witness: a list received in descending order was downsampled to three
\* or more points, in ascending order.
C22_Witness ==
  /\ DsDownsampled
  /\ dsList[1].time > dsList[2].time
  /\ Len(dsOut) >= 3
  /\ AscendingByTime(dsOut)

\* The stored readings of the requested sensor inside the 24 hours the 1h
\* view looks back, in series order.
HourlyStored == SelectSeq(file[hReq.sensorId], LAMBDA x : x.timestamp >= now - 86400)

\* C23: the 1h result of a sensor whose file was read holds, for each minute
\* that has a stored reading in the window, exactly the first such reading in
\* series order, and nothing else, in ascending timestamp order.
C23_HourlyDedup ==
  (hPc = "done" /\ hReq.period = "1h" /\ HistConfigured /\ hObs.readOk) =>
    LET data == HRespOf.data
        st   == HourlyStored
    IN  /\ \A i, j \in 1..Len(data) :
             i < j => /\ data[i].timestamp \div 60 # data[j].timestamp \div 60
                      /\ data[i].timestamp <= data[j].timestamp
        /\ \A k \in 1..Len(st) :
             (\A h \in 1..(k - 1) : st[h].timestamp \div 60 # st[k].timestamp \div 60)
               => st[k] \in Range(data)
        /\ \A i \in 1..Len(data) :
             \E k \in 1..Len(st) :
               /\ st[k] = data[i]
               /\ \A h \in 1..(k - 1) : st[h].timestamp \div 60 # st[k].timestamp \div 60

\* C23 witness: three readings of two minutes were stored latest first; the 1h
\* result holds the first stored of each minute, earliest first.
C23_Witness ==
  /\ hPc = "done"
  /\ hReq.period = "1h"
  /\ hObs.readOk
  /\ file["account1_soil_ch1"] = <<Reading(41, 75), Reading(43, 70), Reading(40, 10)>>
  /\ HRespOf.data = <<Reading(40, 10), Reading(41, 75)>>

\* The readings the upstream can report for a sensor: those of the payloads
\* of its account that carry a reporting instant.
UpstreamReadings(s) ==
  { Reading(d[i].value, d[i].time) :
      <<d, i>> \in { <<d, i>> \in Payloads(matchAccount(s)) \X (1..2) :
                      /\ i <= Len(d)
                      /\ SensorId(matchAccount(s), d[i].ch) = s
                      /\ d[i].time # NoTime } }

\* What a finished request handed to storeReading matches what it obtained:
\* one call per sensor, in order, under the sensor's id, with its moisture
\* and its reported instant, which is not the time of the poll.
ForwardedAll(r) ==
  LET got == Obtained(r)
      st  == obs[r].stored
  IN  /\ Len(st) = Len(got)
      /\ \A k \in 1..Len(got) :
           /\ st[k].id = got[k].id
           /\ st[k].reading = Reading(got[k].moisture, got[k].timestamp)
           /\ st[k].reading \in UpstreamReadings(got[k].id)
           /\ st[k].reading.timestamp < obs[r].arrived
           /\ \A h \in 1..Len(got) : h # k => got[h].id # got[k].id
      /\ \A a \in Succeeding(r) :
           \A x \in Range(results[r][a].sensors) : \E k \in 1..Len(st) : st[k].id = x.id

C25_MissingTimestamp ==
  \A r \in Requests, a \in AccountSet :
    ( /\ Fetched(r) /\ ~obs[r].threw
      /\ a \in accounts
      /\ results[r][a].error = "Invalid time value" )
    => /\ \E x \in Range(RespOf(r).sensors) :
            x.id = SensorId(a, 1) /\ x.moisture = 40 /\ x.timestamp >= obs[r].arrived
       /\ \E x \in Range(RespOf(r).sensors) :
            x.id = SensorId(a, 2) /\ x.moisture = 41 /\ x.timestamp = 40
       /\ \E k \in 1..Len(obs[r].stored) : obs[r].stored[k].id = SensorId(a, 1)
       /\ \E k \in 1..Len(obs[r].stored) : obs[r].stored[k].id = SensorId(a, 2)

\* C26: in every mode, every reading persisted and every reading handed to
\* storeReading is one the upstream reported for that sensor; a request
\* answered in mock mode or from the cache hands nothing to storeReading, and
\* one answered with the mock fallback hands over only what its accounts reported.
C26_NoSyntheticStored ==
  /\ \A s \in SensorIds :
       /\ Range(file[s]) \subseteq UpstreamReadings(s)
       /\ Range(appended[s]) \subseteq UpstreamReadings(s)
  /\ (useMock \/ accounts = {}) => file = EmptyHistory
  /\ \A r \in Requests :
       pc[r] = "done" =>
         /\ obs[r].branch \in {"mock", "cache"} => obs[r].stored = <<>>
         /\ \A k \in 1..Len(obs[r].stored) :
              obs[r].stored[k].reading \in UpstreamReadings(obs[r].stored[k].id)

\* C26 witness: a round in which every account failed was answered with mock
\* data and its errors while the file holds the real readings of another
\* request, and nothing else.
C26_Witness ==
  \E r, q \in Requests :
    /\ r # q
    /\ Fetched(r) /\ RespOf(r).mock /\ RespOf(r).errors # <<>>
    /\ obs[r].stored = <<>>
    /\ Fetched(q) /\ ~RespOf(q).mock /\ Len(obs[q].stored) = 3
    /\ ~ioFailed
    /\ file["account1_soil_ch1"] = <<Reading(43, 70)>>

\* C27: the cached snapshot is never mock data nor the result of a round in
\* which every account failed; a request that is answered with mock data
\* leaves the cache and its time as they were; and with real accounts a
\* request that finds no snapshot, or one aged 5 seconds or more, makes one
\* upstream call per account.
C27_CacheOnlyReal ==
  /\ [](sensorCache # <<>> =>
          /\ ~sensorCache[1].mock
          /\ ~(sensorCache[1].sensors = <<>> /\ sensorCache[1].errors # <<>>)
          /\ \A x \in Range(sensorCache[1].sensors) :
               Reading(x.moisture, x.timestamp) \in UpstreamReadings(x.id))
  /\ [][ \A r \in Requests :
           (pc[r] # "done" /\ pc'[r] = "done" /\ resp'[r][1].mock) =>
             (sensorCache' = sensorCache /\ sensorCacheTime' = sensorCacheTime) ]_vars
  /\ [](\A r \in Requests :
          ( /\ pc[r] # "idle"
            /\ ~useMock /\ accounts # {}
            /\ (obs[r].cacheSeen = <<>> \/ obs[r].ageSeen >= 5000) )
          => /\ obs[r].branch = "fetch"
             /\ \A a \in accounts : obs[r].calls[a] = 1)

\* C27 witness: the first request was answered at second 100 with the mock
\* fallback of a round in which every account failed; the second arrived 4
\* seconds later, found no snapshot, and made its own round of calls.
C27_Witness ==
  /\ pc[1] = "done" /\ obs[1].branch = "fetch"
  /\ RespOf(1).mock /\ RespOf(1).errors # <<>>
  /\ RespOf(1).lastUpdated = StartTime
  /\ obs[2].arrived = StartTime + 4
  /\ obs[2].cacheSeen = <<>>
  /\ obs[2].branch = "fetch"
  /\ \A a \in accounts : obs[2].calls[a] = 1
  /\ sensorCache = <<>>

\* sub is obtained from seq by deleting entries: each entry of sub is matched,
\* in order, by a later entry of seq, each entry of seq being used once.
RECURSIVE IsSubsequence(_, _)
IsSubsequence(sub, seq) ==
  IF sub = <<>> THEN TRUE
  ELSE IF seq = <<>> THEN FALSE
  ELSE IF sub[1] = seq[1] THEN IsSubsequence(Tail(sub), Tail(seq))
  ELSE IsSubsequence(sub, Tail(seq))

\* C28: the output of the downsampling is a subsequence of the time-sorted
\* input (every point is an input reading, unchanged, used at most once),
\* never longer than the input, and when buckets were formed no bucket has
\* more than two of its readings in the output.
C28_NoFabrication ==
  dsDone =>
    LET r == parseList(dsList)
        n == Ceil(Len(r), maxPoints(dsPeriod))
    IN  /\ IsSubsequence(dsOut, r)
        /\ Range(dsOut) \subseteq Range(dsList)
        /\ \A i, j \in 1..Len(dsOut) : i # j => dsOut[i] # dsOut[j]
        /\ Len(dsOut) <= Len(dsList)
        /\ DsDownsampled =>
             \A b \in 0..(BucketCount(r, n) - 1) :
               Cardinality({ i \in 1..Len(dsOut) : dsOut[i] \in BucketOf(r, n, b) }) <= 2

\* C28 witness: a list received in descending order was downsampled to fewer
\* points than it had; one bucket of three readings gave two points, and a
\* bucket of a single reading gave that reading once.
C28_Witness ==
  /\ DsDownsampled
  /\ ~AscendingByTime(dsList)
  /\ Len(dsOut) < Len(dsList)
  /\ LET r == parseList(dsList)
         n == Ceil(Len(r), maxPoints(dsPeriod))
     IN  /\ \E b \in 0..(BucketCount(r, n) - 1) :
              /\ Cardinality(BucketOf(r, n, b)) = 3
              /\ Cardinality({ i \in 1..Len(dsOut) : dsOut[i] \in BucketOf(r, n, b) }) = 2
         /\ \E b \in 0..(BucketCount(r, n) - 1) :
              /\ Cardinality(BucketOf(r, n, b)) = 1
              /\ Cardinality({ i \in 1..Len(dsOut) : dsOut[i] \in BucketOf(r, n, b) }) = 1

\* C29 (as stated): a call of storeReading for a sensor leaves the persisted
\* series of every other sensor as it was, also when the read of the history
\* file fails during the call.
C29_AppendFrame ==
  [][ \A s \in SensorIds :
        appended'[s] # appended[s] =>
          \A o \in SensorIds \ {s} : file'[o] = file[o] ]_vars

\* C30: at most one call of fetchSensors is in flight, and the flag is set
\* exactly while one is; a refresh requested by the timer, the caller or a
\* second run of the effects while one is in flight starts nothing and leaves
\* the state shown as it was; when the fetch settles, with data or with a
\* failure, the flag and the loading indicator are cleared; and a tick that
\* finds no fetch in flight starts one.
C30_SingleFlight ==
  /\ [](inFlight <= 1 /\ refreshingRef = (inFlight = 1))
  /\ [][ refreshingRef =>
           /\ inFlight' <= inFlight
           /\ (polls' # polls \/ effectRuns' # effectRuns) =>
                /\ cEvent'.outcome = "dropped"
                /\ UNCHANGED <<refreshingRef, hasLoadedRef, uiVars, inFlight>> ]_vars
  /\ [][ inFlight' < inFlight =>
           /\ ~refreshingRef' /\ ~uiLoading'
           /\ cEvent'.outcome \in {"ok", "failed"}
           /\ cEvent'.outcome = "failed" => uiError' # <<>> ]_vars
  /\ [][ (polls' # polls /\ inFlight = 0) =>
           (inFlight' = 1 /\ refreshingRef' /\ cEvent' = Event("tick", "started")) ]_vars

\* C30 witness: after a fetch that succeeded and a later one that failed, a
\* tick of the timer has started a new fetch, which is the only one in flight.
C30_Witness ==
  /\ hasLoadedRef
  /\ uiError = <<"Failed to fetch">>
  /\ cEvent = Event("tick", "started")
  /\ polls = 2
  /\ inFlight = 1 /\ refreshingRef

====
